---- MODULE Spec2Model ----
(***************************************************************************)
(* boost/hana/fwd/type.hpp: `Type` objects (values standing for C++ types) *)
(* and the lifters template_, metafunction, metafunction_class, trait and  *)
(* trait_, modelled as a term evaluator.                                   *)
(*                                                                         *)
(* A C++ type is a term [k, n, a]: k its kind, n a name, a its arguments.  *)
(* Two C++ types are the same type (std::is_same) iff their terms are      *)
(* equal.  An expression is [ty, cat]: its type (top-level const kept) and *)
(* its value category.  An ill-formed construct evaluates to Illformed.    *)
(***************************************************************************)
EXTENDS Integers, Sequences, FiniteSets, TLC

VARIABLES f, args, cat, op, operand, res

vars == <<f, args, cat, op, operand, res>>

\* Longest template argument list / call argument list explored.
MaxArity == 2

-----------------------------------------------------------------------------
(* C++ types as terms *)

Base(name) == [k |-> "base", n |-> name, a |-> <<>>]

\* The ill-formed type: what a substitution or lookup that does not compile gives.
Illformed == [k |-> "illformed", n |-> "", a |-> <<>>]

\* T const; const on an already const type is the same type.
Const(T) == IF T.k = "const" THEN T ELSE [k |-> "const", n |-> "", a |-> <<T>>]

RemoveConst(T) == IF T.k = "const" THEN T.a[1] ELSE T

Ptr(T) == [k |-> "ptr", n |-> "", a |-> <<T>>]

LRef(T) == [k |-> "lref", n |-> "", a |-> <<T>>]

RRef(T) == [k |-> "rref", n |-> "", a |-> <<T>>]

IsRef(T) == T.k \in {"lref", "rref"}

\* std::integral_constant<bool, b>, the compile-time true / false constant.
BoolConstant(b) == IF b THEN Base("true_type") ELSE Base("false_type")

\* The templates lifted in the checks:
\*   f            template <typename ...> struct f { };   (no nested ::type)
\*   is_same      std::is_same<A, B>, derived from the bool constant, whose
\*                nested ::type is that constant
\*   add_pointer  the MPL-style metafunction with ::type = T*
Templates == {"f", "is_same", "add_pointer"}

\* Can the template be instantiated on this many type arguments?
ArityOk(g, n) ==
    CASE g = "f" -> TRUE
      [] g = "is_same" -> n = 2
      [] g = "add_pointer" -> n = 1
      [] OTHER -> FALSE

\* g<xs...>
Inst(g, xs) ==
    IF ArityOk(g, Len(xs)) /\ \A i \in 1..Len(xs) : xs[i] # Illformed
    THEN [k |-> "inst", n |-> g, a |-> xs]
    ELSE Illformed

\* The nested ::type of an instantiation g<xs...> of one of Templates.
ResultOf(g, xs) ==
    CASE g = "is_same" -> BoolConstant(xs[1] = xs[2])
      [] g = "add_pointer" -> Ptr(xs[1])
      [] OTHER -> Illformed

\* The metafunction class quoting template g: a class whose nested
\* apply<xs...> has the nested ::type of g<xs...>.
MetafunctionClass(g) == [k |-> "mfclass", n |-> g, a |-> <<>>]

\* F::template apply<xs...>
ApplyMember(F, xs) ==
    IF F.k = "mfclass" /\ Inst(F.n, xs) # Illformed
    THEN [k |-> "mfclass::apply", n |-> F.n, a |-> xs]
    ELSE Illformed

-----------------------------------------------------------------------------
(* The header's own class templates *)

\* TypeClass with the cv-qualifier of T dropped before wrapping.
TypeClass_cv_dropped(T) ==
    IF T = Illformed THEN Illformed ELSE [k |-> "_type::_", n |-> "", a |-> <<RemoveConst(T)>>]

\* _type<T>::_, the class of the object type<T>.
TypeClass(T) == IF T = Illformed THEN Illformed ELSE [k |-> "_type::_", n |-> "", a |-> <<T>>]

IsTypeClass(C) == C.k = "_type::_"

\* _template_apply written as an alias of g<xs...>, as _metafunction's is.
_template_apply_alias(g, xs) == Inst(g, xs)

\* _template<g>::apply<xs...>: a struct of its own, with a member `type`.
_template_apply(g, xs) == [k |-> "_template::apply", n |-> g, a |-> xs]

\* _metafunction<g>::apply<xs...>: an alias of g<xs...>.
_metafunction_apply(g, xs) == Inst(g, xs)

\* _metafunction_class<F>::apply<xs...>: an alias of F::apply<xs...>.
_metafunction_class_apply(F, xs) == ApplyMember(F, xs)

\* C::type, the nested lookup.  It looks through a const qualifier and is
\* ill-formed inside a reference type and in a class without the member.
NestedType(C) ==
    LET U == RemoveConst(C) IN
    CASE U.k = "_type::_" -> U.a[1]
      [] U.k = "_template::apply" -> Inst(U.n, U.a)
      [] U.k = "inst" -> ResultOf(U.n, U.a)
      [] U.k = "mfclass::apply" -> ResultOf(U.n, U.a)
      [] OTHER -> Illformed

-----------------------------------------------------------------------------
(* Expressions *)

Categories == {"lvalue", "const_lvalue", "xvalue", "prvalue"}

IllformedExpr == [ty |-> Illformed, cat |-> "none"]

NoExpr == [ty |-> Base("none"), cat |-> "none"]

WellFormed(e) == e.ty # Illformed

\* An object of type T reached through an expression of category c.
Expr(T, c) ==
    IF T = Illformed THEN IllformedExpr
    ELSE [ty |-> IF c = "const_lvalue" THEN Const(T) ELSE T, cat |-> c]

\* decltype((e)): a reference type unless e is a prvalue.
DeclType(e) ==
    CASE e.cat \in {"lvalue", "const_lvalue"} -> LRef(e.ty)
      [] e.cat = "xvalue" -> RRef(e.ty)
      [] e.cat = "prvalue" -> e.ty
      [] OTHER -> Illformed

\* decltype(t) for the name t of an object (not of a reference): the type t
\* was declared with, its const included, and never a reference.
DeclaredType(e) == IF e.cat \in {"lvalue", "const_lvalue"} THEN e.ty ELSE Illformed

\* The type deduced for a by-value parameter `T` from the argument e:
\* references and top-level const are dropped.
Deduce(e) == RemoveConst(e.ty)

\* A function with return type `auto` returning e: a prvalue of e's type
\* without top-level const.
ReturnAuto(e) == IF WellFormed(e) THEN [ty |-> RemoveConst(e.ty), cat |-> "prvalue"] ELSE IllformedExpr

\* T{}: a default-constructed object.
DefaultConstruct(T) == IF T = Illformed THEN IllformedExpr ELSE [ty |-> T, cat |-> "prvalue"]

\* The variable template  constexpr typename _type<T>::_ type{};
\* naming it is a const lvalue.
type(T) == Expr(TypeClass(T), "const_lvalue")

\* The object type<T> as an algorithm hands it over: the variable itself, a
\* non-const copy, a moved copy or a temporary.
TypeObject(T, c) == Expr(RemoveConst(type(T).ty), c)

\* The members struct _type<T>::_ declares.  Its base operators::enable_adl
\* is a tag that makes the free operators findable; a call operator can only
\* be a member.
TypeMembers == {"hana", "type", "operator+"}

\* operator_plus returning *this by const reference.
operator_plus_by_reference(e) ==
    IF WellFormed(e) /\ IsTypeClass(RemoveConst(e.ty))
    THEN [ty |-> Const(e.ty), cat |-> "const_lvalue"]
    ELSE IllformedExpr

\* _type<T>::_::operator+() const, returning `_` by value.
operator_plus(e) ==
    IF WellFormed(e) /\ IsTypeClass(RemoveConst(e.ty)) /\ "operator+" \in TypeMembers
    THEN [ty |-> RemoveConst(e.ty), cat |-> "prvalue"]
    ELSE IllformedExpr

\* t(): a call with no arguments of a Type object t.  Were there a call
\* operator, it would construct the represented type.
CallNullary(e) ==
    IF WellFormed(e) /\ IsTypeClass(RemoveConst(e.ty)) /\ "operator()" \in TypeMembers
    THEN DefaultConstruct(NestedType(e.ty))
    ELSE IllformedExpr

\* bool_<b>, the value a comparison of Types returns.
bool_(b) == [ty |-> IF b THEN Base("bool_<true>") ELSE Base("bool_<false>"), cat |-> "prvalue"]

\* equal for two Types: std::is_same of the represented types.
equal(x, y) ==
    IF WellFormed(x) /\ WellFormed(y) /\ IsTypeClass(Deduce(x)) /\ IsTypeClass(Deduce(y))
    THEN bool_(NestedType(Deduce(x)) = NestedType(Deduce(y)))
    ELSE IllformedExpr

-----------------------------------------------------------------------------
(* The call operators *)

\* typename xs::type... for the parameter pack xs deduced from the arguments es
NestedTypes(es) == [i \in 1..Len(es) |-> NestedType(Deduce(es[i]))]

\* _template_call with the extra ::type lookup of _metafunction.
_template_call_nested(g, es) == ReturnAuto(type(NestedType(Inst(g, NestedTypes(es)))))

\* _template_call instantiating g on the argument classes, not on their ::type.
_template_call_unwrapped(g, es) == ReturnAuto(type(Inst(g, [i \in 1..Len(es) |-> Deduce(es[i])])))

\* _template<g>::operator()(xs...):  return type<g<typename xs::type...>>;
_template_call(g, es) == ReturnAuto(type(Inst(g, NestedTypes(es))))

\* _metafunction_call without the ::type lookup.
_metafunction_call_flat(g, es) == ReturnAuto(type(Inst(g, NestedTypes(es))))

\* _metafunction<g>::operator()(xs...):
\*   return type<typename g<typename xs::type...>::type>;
_metafunction_call(g, es) == ReturnAuto(type(NestedType(Inst(g, NestedTypes(es)))))

\* _metafunction_class_call without the ::type lookup.
_metafunction_class_call_flat(F, es) == ReturnAuto(type(ApplyMember(F, NestedTypes(es))))

\* _metafunction_class<F>::operator()(xs...):
\*   return type<typename F::template apply<typename xs::type...>::type>;
_metafunction_class_call(F, es) == ReturnAuto(type(NestedType(ApplyMember(F, NestedTypes(es)))))

\* _trait_call returning the Type of g<...> instead of an object of it.
_trait_call_wrapped(g, es) == ReturnAuto(type(Inst(g, NestedTypes(es))))

\* _trait<g>::operator()(xs...):  return g<typename xs::type...>{};
_trait_call(g, es) == ReturnAuto(DefaultConstruct(Inst(g, NestedTypes(es))))

\* _trait__call looking up ::type in its arguments, as _trait_call does.
_trait__call_nested(g, es) == ReturnAuto(DefaultConstruct(Inst(g, NestedTypes(es))))

\* _trait_<g>::operator()(xs...):  return g<xs...>{};
_trait__call(g, es) == ReturnAuto(DefaultConstruct(Inst(g, [i \in 1..Len(es) |-> Deduce(es[i])])))

\* _decltype::operator()(T):  return type<T>;
_decltype_call(e) == IF WellFormed(e) THEN ReturnAuto(type(Deduce(e))) ELSE IllformedExpr

\* compose(trait<g>, decltype_)(es...): decltype_ of each argument, then trait<g>.
compose_trait_decltype(g, es) == _trait_call(g, [i \in 1..Len(es) |-> _decltype_call(es[i])])

-----------------------------------------------------------------------------
(* The translation unit under check *)

int == Base("int")

double == Base("double")

\* The types the lifted templates are instantiated on.
ArgTypes == {int, double, Const(int), Ptr(int), Inst("f", <<int>>)}

\* All lists of at most n argument types.
RECURSIVE Lists(_)
Lists(n) ==
    IF n = 0 THEN {<<>>}
    ELSE LET shorter == Lists(n - 1) IN
         shorter \cup {Append(xs, x) : xs \in {l \in shorter : Len(l) = n - 1}, x \in ArgTypes}

\* type<x1>, ..., type<xN>, each reached through an expression of category c
TypeArgs(xs, c) == [i \in 1..Len(xs) |-> TypeObject(xs[i], c)]

\* objects of types x1, ..., xN, each reached through an expression of category c
Objects(xs, c) == [i \in 1..Len(xs) |-> Expr(xs[i], c)]

Ops == {"none", "equal", "plus", "plus_result", "decltype_", "template_", "template_()",
        "metafunction", "metafunction_class", "trait", "trait_", "round_trip"}

TypeOK ==
    /\ f \in Templates
    /\ args \in Lists(MaxArity)
    /\ cat \in Categories
    /\ op \in Ops

Init ==
    /\ f \in Templates
    /\ args \in Lists(MaxArity)
    /\ cat \in Categories
    /\ op = "none"
    /\ operand = NoExpr
    /\ res = NoExpr

\* type<args[1]> == type<args[2]>
Compare ==
    /\ Len(args) >= 2
    /\ op' = "equal"
    /\ operand' = NoExpr
    /\ res' = equal(TypeObject(args[1], cat), TypeObject(args[2], cat))
    /\ UNCHANGED <<f, args, cat>>

\* +t for the Type object t of args[1]
Plus ==
    /\ Len(args) >= 1
    /\ op' = "plus"
    /\ operand' = TypeObject(args[1], cat)
    /\ res' = operator_plus(TypeObject(args[1], cat))
    /\ UNCHANGED <<f, args, cat>>

\* +r for the Type object r some earlier expression gave
PlusResult ==
    /\ WellFormed(res) /\ IsTypeClass(RemoveConst(res.ty))
    /\ op' = "plus_result"
    /\ operand' = res
    /\ res' = operator_plus(res)
    /\ UNCHANGED <<f, args, cat>>

\* decltype_(x) for an object x of type args[1]
Call_decltype_ ==
    /\ Len(args) >= 1
    /\ op' = "decltype_"
    /\ operand' = NoExpr
    /\ res' = _decltype_call(Expr(args[1], cat))
    /\ UNCHANGED <<f, args, cat>>

\* template_<f>(type<args>...)
Call_template_ ==
    /\ op' = "template_"
    /\ operand' = NoExpr
    /\ res' = _template_call(f, TypeArgs(args, cat))
    /\ UNCHANGED <<f, args, cat>>

\* template_<f>(type<args>...)()
Call_template_result ==
    /\ op = "template_"
    /\ op' = "template_()"
    /\ operand' = res
    /\ res' = CallNullary(res)
    /\ UNCHANGED <<f, args, cat>>

\* metafunction<f>(type<args>...)
Call_metafunction ==
    /\ op' = "metafunction"
    /\ operand' = NoExpr
    /\ res' = _metafunction_call(f, TypeArgs(args, cat))
    /\ UNCHANGED <<f, args, cat>>

\* metafunction_class<F>(type<args>...) for the metafunction class F quoting f
Call_metafunction_class ==
    /\ op' = "metafunction_class"
    /\ operand' = NoExpr
    /\ res' = _metafunction_class_call(MetafunctionClass(f), TypeArgs(args, cat))
    /\ UNCHANGED <<f, args, cat>>

\* trait<f>(type<args>...)
Call_trait ==
    /\ op' = "trait"
    /\ operand' = NoExpr
    /\ res' = _trait_call(f, TypeArgs(args, cat))
    /\ UNCHANGED <<f, args, cat>>

\* trait_<f>(x...) for objects x of types args
Call_trait_ ==
    /\ op' = "trait_"
    /\ operand' = NoExpr
    /\ res' = _trait__call(f, Objects(args, cat))
    /\ UNCHANGED <<f, args, cat>>

\* type<decltype(t)::type> for a named Type object t of args[1]: the variable
\* type<args[1]> itself (const) or a non-const copy of it
RoundTrip ==
    /\ Len(args) >= 1
    /\ cat \in {"lvalue", "const_lvalue"}
    /\ op' = "round_trip"
    /\ operand' = TypeObject(args[1], cat)
    /\ res' = type(NestedType(DeclaredType(TypeObject(args[1], cat))))
    /\ UNCHANGED <<f, args, cat>>

Next ==
    \/ Compare
    \/ Plus
    \/ PlusResult
    \/ Call_decltype_
    \/ Call_template_
    \/ Call_template_result
    \/ Call_metafunction
    \/ Call_metafunction_class
    \/ Call_trait
    \/ Call_trait_
    \/ RoundTrip

Spec == Init /\ [][Next]_vars

-----------------------------------------------------------------------------
(* Properties *)

\* x == y holds, for two Types
SameType(x, y) == equal(x, y) = bool_(TRUE)

\* g<xs...> is well-formed
Applicable(g, xs) == ArityOk(g, Len(xs))

\* g<xs...> is well-formed and has a nested ::type
HasResult(g, xs) == ArityOk(g, Len(xs)) /\ g \in {"is_same", "add_pointer"}

\* C1: type<A> == type<B> is always defined, and is true exactly when A and B
\* are the identical type.
C1_EqualIffSameType ==
    op = "equal" =>
        /\ res \in {bool_(TRUE), bool_(FALSE)}
        /\ (res = bool_(TRUE)) <=> (args[1] = args[2])

C1_Witness ==
    /\ op = "equal" /\ args[1] = int /\ args[2] = Const(int) /\ res = bool_(FALSE)

\* C2: for each of template_, metafunction and metafunction_class, the call
\* f(type<T1>, ..., type<Tn>) equals type<decltype(f)::apply<T1, ..., Tn>::type>
\* whenever f is applicable to T1..Tn.
C2_CallAgreesWithApply ==
    /\ (op = "template_" /\ Applicable(f, args)) =>
            /\ WellFormed(res)
            /\ SameType(res, type(NestedType(_template_apply(f, args))))
    /\ (op = "metafunction" /\ HasResult(f, args)) =>
            /\ WellFormed(res)
            /\ SameType(res, type(NestedType(_metafunction_apply(f, args))))
    /\ (op = "metafunction_class" /\ HasResult(f, args)) =>
            /\ WellFormed(res)
            /\ SameType(res, type(NestedType(_metafunction_class_apply(MetafunctionClass(f), args))))

C2_Witness ==
    /\ op = "metafunction_class" /\ f = "add_pointer" /\ args = <<Const(int)>>
    /\ res.ty = TypeClass(Ptr(Const(int)))

\* C3: template_<f>(type<x1>, ..., type<xN>), the empty list included, equals
\* type<f<x1, ..., xN>>: the Type of the instantiation itself, not of its
\* nested ::type.
C3_TemplateLiftsInstantiation ==
    (op = "template_" /\ Applicable(f, args)) =>
        /\ res = ReturnAuto(type(Inst(f, args)))
        /\ SameType(res, type(Inst(f, args)))
        /\ HasResult(f, args) => ~SameType(res, type(NestedType(Inst(f, args))))

C3_Witness ==
    /\ op = "template_" /\ f = "f" /\ args = <<>>
    /\ res.ty = TypeClass(Inst("f", <<>>))

\* C4: metafunction<f>(type<x1>, ..., type<xN>) equals type<f<x1, ..., xN>::type>,
\* which is the Type template_<f> returns for the same arguments with one
\* nested ::type lookup applied to the type it represents.
C4_MetafunctionLiftsNestedType ==
    (op = "metafunction" /\ HasResult(f, args)) =>
        /\ WellFormed(res)
        /\ SameType(res, type(NestedType(Inst(f, args))))
        /\ SameType(res, type(NestedType(NestedType(_template_call(f, TypeArgs(args, cat)).ty))))

C4_Witness ==
    /\ op = "metafunction" /\ f = "is_same" /\ args = <<int, double>>
    /\ res.ty = TypeClass(BoolConstant(FALSE))

\* C5: metafunction_class<F>(type<x1>, ..., type<xN>) equals
\* type<F::apply<x1, ..., xN>::type>.
C5_MetafunctionClassLiftsApply ==
    (op = "metafunction_class" /\ HasResult(f, args)) =>
        /\ WellFormed(res)
        /\ res = ReturnAuto(type(NestedType(ApplyMember(MetafunctionClass(f), args))))
        /\ SameType(res, type(ResultOf(f, args)))

C5_Witness ==
    /\ op = "metafunction_class" /\ f = "is_same" /\ args = <<Ptr(int), Ptr(int)>>
    /\ res.ty = TypeClass(BoolConstant(TRUE))

\* C6: trait<f>(type<x1>, ..., type<xN>) is a default-constructed
\* f<x1, ..., xN>{} itself, not a Type wrapping it.
C6_TraitDefaultConstructs ==
    (op = "trait" /\ Applicable(f, args)) =>
        /\ WellFormed(res)
        /\ res = DefaultConstruct(Inst(f, args))
        /\ ~IsTypeClass(res.ty)

C6_Witness ==
    /\ op = "trait" /\ f = "is_same" /\ args = <<int, int>>
    /\ res.ty = Inst("is_same", <<int, int>>)

\* C7 as stated: template_ of is_same on (type<int>, type<int>) yields the Type
\* of the compile-time true constant, and on (type<int>, type<double>) the
\* Type of the compile-time false constant.
C7_TemplateIsSameYieldsConstant ==
    (op = "template_" /\ f = "is_same") =>
        /\ args = <<int, int>> => SameType(res, type(BoolConstant(TRUE)))
        /\ args = <<int, double>> => SameType(res, type(BoolConstant(FALSE)))

\* C7 as amended: template_ of is_same on (type<int>, type<int>) yields the Type
\* of the instantiation is_same<int, int>, whose nested ::type is the
\* compile-time true constant; on (type<int>, type<double>) it yields the Type
\* of is_same<int, double>, whose nested ::type is the false constant.
C7_TemplateIsSameYieldsInstantiation ==
    (op = "template_" /\ f = "is_same") =>
        /\ args = <<int, int>> =>
            /\ SameType(res, type(Inst("is_same", <<int, int>>)))
            /\ NestedType(NestedType(res.ty)) = BoolConstant(TRUE)
        /\ args = <<int, double>> =>
            /\ SameType(res, type(Inst("is_same", <<int, double>>)))
            /\ NestedType(NestedType(res.ty)) = BoolConstant(FALSE)

C7_Witness ==
    /\ op = "template_" /\ f = "is_same" /\ args = <<int, int>>
    /\ res.ty = TypeClass(Inst("is_same", <<int, int>>))
    /\ res.ty # TypeClass(BoolConstant(TRUE))

\* C8: +t, for a Type object t of T reached as an lvalue, a const lvalue or an
\* rvalue, is a non-reference value whose nested ::type is T; +t == t and
\* +(+t) == +t.
C8_UnaryPlusKeepsType ==
    op \in {"plus", "plus_result"} =>
        LET T == NestedType(operand.ty) IN
        /\ WellFormed(res)
        /\ ~IsRef(DeclType(res))
        /\ NestedType(DeclType(res)) = T
        /\ SameType(res, operand)
        /\ SameType(operator_plus(res), res)
        /\ op = "plus" => T = args[1]

C8_Witness ==
    /\ op = "plus" /\ cat = "const_lvalue" /\ args[1] = Const(int)
    /\ NestedType(DeclType(operand)) = Illformed
    /\ res = [ty |-> TypeClass(Const(int)), cat |-> "prvalue"]

\* C9: template_<f>(t...)() is a valid call and yields the same value as
\* trait<f>(t...).
C9_TraitIsCalledTemplate ==
    (op = "template_()" /\ Applicable(f, args)) =>
        /\ WellFormed(res)
        /\ res = _trait_call(f, TypeArgs(args, cat))

C11_WrapLookupRoundTrip ==
    /\ op = "round_trip" =>
        /\ NestedType(DeclaredType(type(args[1]))) = args[1]
        /\ NestedType(DeclaredType(operand)) = args[1]
        /\ WellFormed(res)
        /\ SameType(res, operand)
    /\ \A i, j \in 1..Len(args) :
        args[i] # args[j] =>
            /\ type(args[i]) # type(args[j])
            /\ \A c \in Categories : TypeObject(args[i], c) # TypeObject(args[j], c)

C11_Witness ==
    /\ op = "round_trip" /\ cat = "lvalue" /\ args = <<Const(int), int>>
    /\ operand = [ty |-> TypeClass(Const(int)), cat |-> "lvalue"]
    /\ res = type(Const(int))
    /\ res # type(int)

====
